---- MODULE Spec2Model ----
(***************************************************************************)
(* Semantic similarity and confidence scoring of market scans:             *)
(*   EmbeddingService.find_similar_scans      (embedding_service.py)       *)
(*   VectorSearchService.find_similar_market_scans, _calculate_confidence_ *)
(*   score, _enrich_similar_scans             (vector_search.py)           *)
(*   JobAnalyzer.analyze_job_with_similar_scans,                           *)
(*   _enhance_analysis_with_similar_scans     (job_analyzer.py)            *)
(*                                                                         *)
(* Similarity scores are counted in hundredths (ScoreScale = 1.0).  A      *)
(* confidence is the exact quotient num/den of the weighted average plus   *)
(* the direction in which the float64 evaluation of the code deviates from *)
(* it (ulp).                                                               *)
(***************************************************************************)
EXTENDS Integers, Sequences, FiniteSets, TLC

\* ------------------------------------------------------------------------
\* Bounds of the model
\* ------------------------------------------------------------------------
MaxScans == 4        \* longest match list handed to the confidence scorer
MaxSimilar == 3      \* longest match list handed to the enhancer
MaxResults == 2      \* largest max_results asked of find_similar_market_scans

\* ------------------------------------------------------------------------
\* Program constants
\* ------------------------------------------------------------------------
ScoreScale == 100    \* the float 1.0 of min(confidence, 1.0), in hundredths
TopN == 3            \* similar_scans[:3]
DefaultComplexity == 5   \* scan.get("complexity_score", 5)
MinComplexity == 1   \* max(1, ...)   and  Field(ge=1)
MaxComplexity == 10  \* min(10, ...)  and  Field(le=10)
MaxAddedSkills == 2  \* frequent_similar_skills[:2]
MinSimilarForEnhance == 2   \* len(similar_scans) >= 2
AnalysisThreshold == 70     \* similarity_threshold=0.70
AnalysisMaxResults == 5     \* max_results=5

\* ------------------------------------------------------------------------
\* Python values that a metadata field can hold
\* ------------------------------------------------------------------------
PyNum(n) == [type |-> "number", val |-> n, items |-> <<>>]
PyStr == [type |-> "str", val |-> 0, items |-> <<>>]
PyList(s) == [type |-> "list", val |-> 0, items |-> s]
PyNone == [type |-> "none", val |-> 0, items |-> <<>>]
IsNum(v) == v.type = "number"
IsList(v) == v.type = "list"

Min(a, b) == IF a <= b THEN a ELSE b
Max(a, b) == IF a >= b THEN a ELSE b
SeqToSet(s) == {s[i] : i \in 1..Len(s)}
Take(s, n) == SubSeq(s, 1, Min(n, Len(s)))

\* Sequences over S of length lo..hi
SeqsUpTo(S, lo, hi) == UNION {[1..n -> S] : n \in lo..hi}

\* ------------------------------------------------------------------------
\* Domains
\* ------------------------------------------------------------------------
\* similarity scores in hundredths; 101 is a cosine score that overshoots 1.0
ScoreVals == {0, 50, 70, 75, 90, 100, 101}

VARIABLES
    pc,                 \* position of the request in the pipeline
    entry,              \* entry point that the request came in by
    request,            \* current_scan_id, similarity_threshold, max_results
    index,              \* the vector index: id -> metadata
    query_response,     \* query_response.matches of the index query
    find_error,         \* exception caught by find_similar_scans
    raised,             \* functions whose exception reached their caller
    similar_scans,      \* list returned by find_similar_scans
    confidence,         \* value returned by _calculate_confidence_score
    enriched_scans,     \* list returned by find_similar_market_scans
    job_analysis,       \* baseline analysis returned by analyze_job
    enhanced_analysis,  \* analysis returned by _enhance_analysis_with_similar_scans
    store_call,         \* scan_id and job_analysis of the store call in progress
    embedding,          \* vector that generate_embedding returned to upsert_market_scan
    store_error,        \* exception caught on the store path
    store_result,       \* value returned by store_analysis_vector
    clock,              \* datetime.now() of the last store call, in calls
    stored,             \* per id: the successful store calls so far and the last one
    db,                 \* the row of the scan in the table market_scans
    posting,            \* job_title and job_description of a posting
    provider_text,      \* text handed to the embedding provider, per path
    tasks               \* per concurrent request: the locals of its coroutine

\* state of the store path and of the scan-completion workflow
storeVars == <<store_call, embedding, store_error, store_result, clock, stored, db>>
\* state of the embedding-text construction
textVars == <<posting, provider_text>>
\* state of the requests that run side by side
taskVars == <<tasks>>

vars == <<pc, entry, request, index, query_response, find_error, raised,
          similar_scans, confidence, enriched_scans, job_analysis,
          enhanced_analysis, storeVars, textVars, taskVars>>

\* ------------------------------------------------------------------------
\* VectorSearchService._calculate_confidence_score
\* ------------------------------------------------------------------------
\* Score triples (hundredths) of the top matches for which the float64
\* evaluation of weighted_sum / total_weight, capped at 1.0, lands below /
\* above the double nearest to the exact quotient.
ConfidenceRoundsBelow ==
    {<<0, 70>>, <<50, 101>>, <<70, 0>>, <<70, 70>>, <<70, 90>>, <<70, 100>>,
     <<75, 90>>, <<75, 101>>, <<90, 50>>, <<90, 100>>, <<101, 90>>, <<0, 70, 90>>,
     <<0, 75, 70>>, <<0, 100, 70>>, <<0, 101, 50>>, <<50, 0, 70>>, <<50, 70, 90>>, <<50, 101, 0>>,
     <<70, 70, 0>>, <<70, 70, 50>>, <<70, 70, 75>>, <<70, 70, 100>>, <<70, 90, 0>>, <<90, 0, 75>>,
     <<90, 50, 0>>, <<90, 75, 100>>, <<90, 75, 101>>, <<100, 90, 100>>, <<101, 0, 100>>}
ConfidenceRoundsAbove ==
    {<<75, 70>>, <<0, 0, 75>>, <<0, 0, 101>>, <<0, 50, 0>>, <<0, 50, 75>>, <<0, 50, 90>>,
     <<0, 75, 75>>, <<0, 75, 90>>, <<0, 90, 0>>, <<0, 90, 50>>, <<0, 90, 100>>, <<0, 100, 0>>,
     <<0, 100, 90>>, <<0, 101, 75>>, <<0, 101, 100>>, <<50, 0, 0>>, <<50, 0, 90>>, <<50, 50, 75>>,
     <<50, 70, 75>>, <<50, 75, 70>>, <<50, 75, 90>>, <<50, 90, 90>>, <<50, 100, 0>>, <<50, 100, 50>>,
     <<50, 100, 70>>, <<50, 100, 75>>, <<50, 101, 50>>, <<70, 0, 90>>, <<70, 50, 90>>, <<70, 75, 50>>,
     <<70, 90, 50>>, <<70, 101, 0>>, <<70, 101, 50>>, <<70, 101, 70>>, <<70, 101, 75>>, <<70, 101, 90>>,
     <<75, 0, 75>>, <<75, 50, 0>>, <<75, 50, 50>>, <<75, 50, 70>>, <<75, 50, 75>>, <<75, 70, 0>>,
     <<75, 70, 50>>, <<75, 70, 70>>, <<75, 70, 75>>, <<75, 70, 90>>, <<75, 75, 90>>, <<75, 75, 101>>,
     <<75, 100, 0>>, <<75, 100, 50>>, <<75, 100, 70>>, <<90, 0, 0>>, <<90, 0, 100>>, <<90, 0, 101>>,
     <<90, 50, 50>>, <<90, 70, 0>>, <<90, 70, 50>>, <<90, 70, 70>>, <<90, 90, 0>>, <<90, 90, 50>>,
     <<90, 90, 70>>, <<90, 90, 75>>, <<90, 90, 90>>, <<90, 100, 50>>, <<90, 100, 70>>, <<90, 101, 50>>,
     <<90, 101, 75>>, <<90, 101, 101>>, <<100, 0, 0>>, <<100, 0, 50>>, <<100, 0, 70>>, <<100, 0, 75>>,
     <<100, 50, 0>>, <<100, 50, 50>>, <<100, 50, 70>>, <<100, 70, 0>>, <<100, 70, 50>>, <<100, 70, 70>>,
     <<100, 70, 75>>, <<100, 70, 90>>, <<100, 75, 101>>, <<100, 90, 101>>, <<100, 100, 50>>, <<100, 100, 70>>,
     <<100, 100, 90>>, <<101, 0, 101>>, <<101, 50, 50>>, <<101, 50, 75>>, <<101, 50, 101>>, <<101, 75, 50>>,
     <<101, 75, 70>>, <<101, 75, 90>>, <<101, 90, 70>>, <<101, 90, 90>>, <<101, 100, 0>>, <<101, 100, 50>>,
     <<101, 100, 70>>, <<101, 100, 75>>, <<101, 101, 50>>, <<101, 101, 70>>, <<101, 101, 75>>, <<101, 101, 90>>}

ScoresUnranked(scans) == [i \in 1..Len(scans) |-> scans[1].similarity_score]

Scores(scans) == [i \in 1..Len(scans) |-> scans[i].similarity_score]

Float64Ulp(scores) ==
    IF scores \in ConfidenceRoundsBelow THEN -1
    ELSE IF scores \in ConfidenceRoundsAbove THEN 1
    ELSE 0

Weight6SignFlip(rank) == IF rank = 2 THEN -3 ELSE 6 \div rank

\* 6 * (1.0 / (i + 1)) for the enumerate index i = rank - 1
Weight6(rank) == 6 \div rank

RECURSIVE WeightedSum6(_, _)
WeightedSum6(scores, n) ==
    IF n = 0 THEN 0
    ELSE WeightedSum6(scores, n - 1) + scores[n] * Weight6(n)

RECURSIVE TotalWeight6(_)
TotalWeight6(n) == IF n = 0 THEN 0 ELSE TotalWeight6(n - 1) + Weight6(n)

ZeroConfidence == [num |-> 0, den |-> 1, ulp |-> 0]

CapNoCap(num, den, ulp) == [num |-> num, den |-> den, ulp |-> ulp]

\* min(confidence, 1.0)
Cap(num, den, ulp) ==
    IF num > ScoreScale * den
    THEN [num |-> ScoreScale, den |-> 1, ulp |-> ulp]
    ELSE [num |-> num, den |-> den, ulp |-> ulp]

CalculateConfidenceScoreNeutral(scans) ==
    IF scans = <<>> THEN [num |-> ScoreScale, den |-> 2, ulp |-> 0]
    ELSE LET top == Scores(Take(scans, TopN))
         IN  Cap(WeightedSum6(top, Len(top)), TotalWeight6(Len(top)), Float64Ulp(top))

CalculateConfidenceScore(scans) ==
    IF scans = <<>> THEN ZeroConfidence
    ELSE LET top == Scores(Take(scans, TopN))
             weighted_sum == WeightedSum6(top, Len(top))
             total_weight == TotalWeight6(Len(top))
         IN  IF total_weight > 0
             THEN Cap(weighted_sum, total_weight, Float64Ulp(top))
             ELSE ZeroConfidence

\* comparisons of a confidence with a score k (hundredths) as floats
ConfGT(c, k) == c.num > k * c.den \/ (c.num = k * c.den /\ c.ulp > 0)
ConfGE(c, k) == c.num > k * c.den \/ (c.num = k * c.den /\ c.ulp >= 0)
ConfLE(c, k) == ~ConfGT(c, k)
ConfIsZero(c) == c.num = 0

\* ------------------------------------------------------------------------
\* Matches
\* ------------------------------------------------------------------------
\* the similar_scan dict built by find_similar_scans
Match(id, score, complexity, skills) ==
    [scan_id |-> id, similarity_score |-> score,
     role_category |-> "Data Analyst",
     experience_level |-> "mid",
     complexity_score |-> complexity,
     must_have_skills |-> skills,
     recommended_regions |-> PyList(<<"Philippines">>),
     match_reasons |-> PyNone]

ScoreOnlyMatch(s) == Match("s1", s, PyNum(DefaultComplexity), PyList(<<>>))

\* ------------------------------------------------------------------------
\* Specification of the confidence scorer on arbitrary match lists
\* ------------------------------------------------------------------------
NoConfidence == [num |-> -1, den |-> 1, ulp |-> 0]

NoAnalysis == [role_category |-> "none"]
NoScanId == "None"
NoRequest == [current_scan_id |-> NoScanId, similarity_threshold |-> 0, max_results |-> 0]
ScanIds == {"s1", "s2", "s3"}
NoRecord == [present |-> FALSE]
EmptyIndex == [id \in ScanIds |-> NoRecord]

\* no store call in progress, none made, no row written
NoStoreCall == [scan_id |-> NoScanId, job_analysis |-> NoAnalysis,
                company_domain |-> PyNone, client_name |-> PyNone]
NoVector == "none"
NothingStored ==
    [id \in ScanIds |-> [n |-> 0, call |-> NoStoreCall, created_at |-> 0,
                         values |-> NoVector]]
NoRow == [status |-> "none", job_analysis |-> NoAnalysis,
          confidence_score |-> NoConfidence]
StoreIdle ==
    /\ store_call = NoStoreCall
    /\ embedding = NoVector
    /\ store_error = "none"
    /\ store_result = "none"
    /\ clock = 0
    /\ stored = NothingStored
    /\ db = NoRow

NoPosting == [job_title |-> <<>>, job_description |-> <<>>]
NoProviderText == [upsert |-> <<>>, find |-> <<>>, again |-> <<>>, reclean |-> <<>>]
TextIdle ==
    /\ posting = NoPosting
    /\ provider_text = NoProviderText

\* the requests that run side by side, and the locals of one before it runs
Tasks == {"t1", "t2"}
NoTask ==
    [pc |-> "idle", job_analysis |-> NoAnalysis, seen |-> EmptyIndex,
     query_response |-> <<>>, find_error |-> "none", similar_scans |-> <<>>,
     confidence |-> NoConfidence, enriched_scans |-> <<>>,
     enhanced_analysis |-> NoAnalysis]
NoTasks == [t \in Tasks |-> NoTask]

\* the variables that a stand-alone call of a pure function leaves alone
Detached ==
    /\ entry = "none"
    /\ request = NoRequest
    /\ index = EmptyIndex
    /\ query_response = <<>>
    /\ find_error = "none"
    /\ raised = {}
    /\ StoreIdle
    /\ TextIdle
    /\ tasks = NoTasks

InitScore ==
    /\ Detached
    /\ pc = "calculate_confidence"
    /\ similar_scans \in SeqsUpTo({ScoreOnlyMatch(s) : s \in ScoreVals}, 0, MaxScans)
    /\ confidence = NoConfidence
    /\ enriched_scans = <<>>
    /\ job_analysis = NoAnalysis
    /\ enhanced_analysis = NoAnalysis

CalculateConfidence ==
    /\ pc = "calculate_confidence"
    /\ confidence' = CalculateConfidenceScore(similar_scans)
    /\ pc' = "enrich"
    /\ UNCHANGED <<entry, request, index, query_response, find_error, raised,
                   similar_scans, enriched_scans, job_analysis, enhanced_analysis>>
    /\ UNCHANGED <<storeVars, textVars, taskVars>>

SpecScore == InitScore /\ [][CalculateConfidence]_vars

\* ------------------------------------------------------------------------
\* JobAnalyzer._enhance_analysis_with_similar_scans
\* ------------------------------------------------------------------------
JobAnalysis(complexity, must_have, nice_to_have) ==
    [role_category |-> "Data Analyst",
     experience_level |-> "mid",
     years_experience_required |-> "3-5 years",
     must_have_skills |-> must_have,
     nice_to_have_skills |-> nice_to_have,
     key_responsibilities |-> <<"Analyze performance">>,
     remote_work_suitability |-> "high",
     complexity_score |-> complexity,
     recommended_regions |-> <<"Philippines", "Latin America">>,
     unique_challenges |-> "Standard remote role requirements",
     salary_factors |-> <<"Experience level">>]

\* Triples <<baseline complexity, number of scans, sum of their complexity>>
\* for which the float64 value of
\*     job_analysis.complexity_score * 0.7 + similar_avg_complexity * 0.3
\* falls just short of the integer that the exact value is, so that int()
\* yields the integer one closer to zero.
BlendOffByOne ==
    {<<1, 2, -58>>, <<1, 2, -18>>, <<1, 2, 62>>, <<1, 3, -87>>, <<1, 3, -67>>, <<1, 3, -47>>,
     <<1, 3, -27>>, <<1, 3, 13>>, <<1, 3, 73>>, <<1, 3, 93>>, <<1, 3, 113>>, <<1, 4, -116>>,
     <<1, 4, -36>>, <<1, 4, 124>>, <<1, 5, -145>>, <<1, 5, -45>>, <<1, 5, 155>>, <<2, 2, -36>>,
     <<2, 3, -104>>, <<2, 3, -94>>, <<2, 3, -54>>, <<2, 3, -44>>, <<2, 3, 26>>, <<2, 4, -72>>,
     <<2, 5, -90>>, <<3, 2, 6>>, <<3, 3, -11>>, <<3, 3, -1>>, <<3, 3, 9>>, <<3, 3, 19>>,
     <<3, 3, 49>>, <<3, 3, 119>>, <<3, 4, 12>>, <<3, 5, 15>>, <<4, 2, -72>>, <<4, 3, -108>>,
     <<4, 3, -98>>, <<4, 3, -88>>, <<4, 3, 52>>, <<4, 4, -144>>, <<4, 5, -180>>, <<5, 3, -55>>,
     <<6, 2, -8>>, <<6, 2, 12>>, <<6, 2, 72>>, <<6, 3, -32>>, <<6, 3, -22>>, <<6, 3, -12>>,
     <<6, 3, -2>>, <<6, 3, 8>>, <<6, 3, 18>>, <<6, 3, 38>>, <<6, 3, 88>>, <<6, 3, 98>>,
     <<6, 3, 108>>, <<6, 4, -16>>, <<6, 4, 24>>, <<6, 4, 144>>, <<6, 5, -20>>, <<6, 5, 30>>,
     <<6, 5, 180>>, <<7, 2, -26>>, <<7, 2, -6>>, <<7, 3, -119>>, <<7, 3, -39>>, <<7, 3, -29>>,
     <<7, 3, -19>>, <<7, 3, -9>>, <<7, 3, 1>>, <<7, 3, 11>>, <<7, 4, -52>>, <<7, 4, -12>>,
     <<7, 5, -65>>, <<7, 5, -15>>, <<8, 3, 94>>, <<8, 3, 104>>, <<9, 2, -62>>, <<9, 3, -113>>,
     <<9, 3, -93>>, <<9, 3, -73>>, <<9, 4, -124>>, <<9, 5, -155>>, <<10, 3, -110>>}

TruncDiv(a, d) == IF a >= 0 THEN a \div d ELSE -((-a) \div d)

RECURSIVE SumComplexity(_, _)
SumComplexity(scans, n) ==
    IF n = 0 THEN 0
    ELSE SumComplexity(scans, n - 1) + scans[n].complexity_score.val

\* int(job_analysis.complexity_score * 0.7 + similar_avg_complexity * 0.3)
AdjustedComplexity(base, scans) ==
    LET n == Len(scans)
        total == SumComplexity(scans, n)
        exact == TruncDiv(7 * base * n + 3 * total, 10 * n)
    IN  IF <<base, n, total>> \in BlendOffByOne
        THEN (IF exact > 0 THEN exact - 1 ELSE exact + 1)
        ELSE exact

ClampNone(c) == c

\* max(1, min(10, adjusted_complexity))
Clamp(c) == Max(MinComplexity, Min(MaxComplexity, c))

\* the set similar_skills built by the loop over the scans
SimilarSkills(scans) ==
    UNION {SeqToSet(scans[i].must_have_skills.items) : i \in 1..Len(scans)}

\* the orders in which Python may iterate over a set
IterationOrders(S) ==
    {p \in [1..Cardinality(S) -> S] : \A i, j \in 1..Cardinality(S) : p[i] = p[j] => i = j}

ScansWith(scans, skill) ==
    {i \in 1..Len(scans) : skill \in SeqToSet(scans[i].must_have_skills.items)}

FrequentSimilarSkills(analysis, scans, order) ==
    LET current_skills == SeqToSet(analysis.must_have_skills)
                            \cup SeqToSet(analysis.nice_to_have_skills)
        Frequent(skill) == /\ skill \notin current_skills
                           /\ Cardinality(ScansWith(scans, skill)) >= 2
    IN  SelectSeq(order, Frequent)

EnoughSimilarOne(scans) == Len(scans) >= 1

\* len(similar_scans) >= 2
EnoughSimilar(scans) == Len(scans) >= MinSimilarForEnhance

EnhanceRaisesSkillsOnly(scans) ==
    \E i \in 1..Len(scans) : ~IsList(scans[i].must_have_skills)

\* an exception inside the try block: set.update(None), sum() over a string
EnhanceRaises(scans) ==
    \/ \E i \in 1..Len(scans) : ~IsList(scans[i].must_have_skills)
    \/ \E i \in 1..Len(scans) : ~IsList(scans[i].recommended_regions)
    \/ /\ EnoughSimilar(scans)
       /\ \E i \in 1..Len(scans) : ~IsNum(scans[i].complexity_score)

CopyAnalysisSwapped(analysis) ==
    [analysis EXCEPT !.must_have_skills = analysis.nice_to_have_skills]

\* enhanced_analysis = JobAnalysis(role_category=job_analysis.role_category, ...)
CopyAnalysis(analysis) ==
    [role_category |-> analysis.role_category,
     experience_level |-> analysis.experience_level,
     years_experience_required |-> analysis.years_experience_required,
     must_have_skills |-> analysis.must_have_skills,
     nice_to_have_skills |-> analysis.nice_to_have_skills,
     key_responsibilities |-> analysis.key_responsibilities,
     remote_work_suitability |-> analysis.remote_work_suitability,
     complexity_score |-> analysis.complexity_score,
     recommended_regions |-> analysis.recommended_regions,
     unique_challenges |-> analysis.unique_challenges,
     salary_factors |-> analysis.salary_factors]

AddedSkillsUncapped(analysis, scans, order) ==
    FrequentSimilarSkills(analysis, scans, order)

\* frequent_similar_skills[:2]
AddedSkills(analysis, scans, order) ==
    Take(FrequentSimilarSkills(analysis, scans, order), MaxAddedSkills)

EnhanceAnalysisDefaultBlend(analysis, scans, order) ==
    IF scans = <<>>
    THEN [analysis EXCEPT !.complexity_score =
            Clamp(TruncDiv(7 * @ + 3 * DefaultComplexity, 10))]
    ELSE IF EnhanceRaises(scans) THEN analysis
    ELSE IF EnoughSimilar(scans)
    THEN [CopyAnalysis(analysis) EXCEPT
            !.nice_to_have_skills = @ \o AddedSkills(analysis, scans, order),
            !.complexity_score =
                Clamp(AdjustedComplexity(analysis.complexity_score, scans))]
    ELSE CopyAnalysis(analysis)

EnhanceAnalysis(analysis, scans, order) ==
    IF scans = <<>> THEN analysis
    ELSE IF EnhanceRaises(scans) THEN analysis
    ELSE IF EnoughSimilar(scans)
    THEN [CopyAnalysis(analysis) EXCEPT
            !.nice_to_have_skills = @ \o AddedSkills(analysis, scans, order),
            !.complexity_score =
                Clamp(AdjustedComplexity(analysis.complexity_score, scans))]
    ELSE CopyAnalysis(analysis)

BaselineAfterSharedList(analysis, scans, order) ==
    IF /\ scans # <<>>
       /\ \A i \in 1..Len(scans) : IsList(scans[i].must_have_skills)
       /\ \A i \in 1..Len(scans) : IsList(scans[i].recommended_regions)
       /\ EnoughSimilar(scans)
    THEN [analysis EXCEPT
            !.nice_to_have_skills = @ \o AddedSkills(analysis, scans, order)]
    ELSE analysis

\* the caller's job_analysis object after the call: the constructor call
\* validates every field into the new object, building new lists, so that
\* nice_to_have_skills.extend and the assignment of complexity_score act on
\* enhanced_analysis alone
BaselineAfter(analysis, scans, order) == analysis

\* the iteration orders of similar_skills, when the loop gets to build it
SkillOrders(scans) ==
    IF \E i \in 1..Len(scans) : ~IsList(scans[i].must_have_skills)
    THEN {<<>>}
    ELSE IterationOrders(SimilarSkills(scans))

Enhance ==
    /\ pc = "enhance"
    /\ \E order \in SkillOrders(enriched_scans) :
          /\ enhanced_analysis' = EnhanceAnalysis(job_analysis, enriched_scans, order)
          /\ job_analysis' = BaselineAfter(job_analysis, enriched_scans, order)
    /\ pc' = IF entry = "process_market_scan_analysis" THEN "salary" ELSE "done"
    /\ UNCHANGED <<entry, request, index, query_response, find_error, raised,
                   similar_scans, confidence, enriched_scans>>
    /\ UNCHANGED <<storeVars, textVars, taskVars>>

\* ------------------------------------------------------------------------
\* Specification of the enhancer on arbitrary baselines and match lists
\* ------------------------------------------------------------------------
BaselineComplexities == MinComplexity..MaxComplexity
BaselineSkills == {<<<<"sql">>, <<"seo">>>>, <<<<"excel">>, <<>>>>}
Baselines ==
    {JobAnalysis(c, sk[1], sk[2]) : c \in BaselineComplexities, sk \in BaselineSkills}

\* complexity values a neighbour's metadata can carry
ComplexityVals == {PyNum(-40), PyNum(3), PyNum(6), PyNum(40), PyStr}
\* must_have_skills values a neighbour can carry after json.loads
SkillVals == {PyList(<<"sql", "seo", "crm">>), PyList(<<"crm", "sql">>), PyNone}

EnhancerMatches ==
    {Match("s1", 90, c, sk) : c \in ComplexityVals, sk \in SkillVals}

InitEnhance ==
    /\ Detached
    /\ pc = "enhance"
    /\ similar_scans = <<>>
    /\ confidence = NoConfidence
    /\ enriched_scans \in SeqsUpTo(EnhancerMatches, 0, MaxSimilar)
    /\ job_analysis \in Baselines
    /\ enhanced_analysis = NoAnalysis

SpecEnhance == InitEnhance /\ [][Enhance]_vars

\* ------------------------------------------------------------------------
\* The vector index and EmbeddingService.find_similar_scans
\* ------------------------------------------------------------------------
\* serialized metadata fields
JsonArray(s) == [text |-> "array", items |-> s]
JsonNull == [text |-> "null", items |-> <<>>]
NotJson == [text |-> "not-json", items |-> <<>>]

\* json.loads raises on text that is not JSON
JsonLoadsRaises(t) == t.text = "not-json"
JsonLoads(t) == IF t.text = "array" THEN PyList(t.items) ELSE PyNone

\* a stored vector's metadata; scan_id is NoScanId when the writer left the
\* key out (fix_failed_scans.py)
Record(scan_id, complexity, skills) ==
    [present |-> TRUE, scan_id |-> scan_id,
     company_domain |-> PyStr, client_name |-> PyStr,
     role_category |-> "Data Analyst",
     experience_level |-> "mid",
     complexity_score |-> complexity, must_have_skills |-> skills,
     recommended_regions |-> JsonArray(<<"Philippines">>),
     created_at |-> 0, values |-> "v0"]

Neighbor(id, score, metadata) == [id |-> id, score |-> score, metadata |-> metadata]

\* top_k + (1 if exclude_scan_id else 0)
QueryTopK(top_k, exclude_scan_id) ==
    top_k + (IF exclude_scan_id # NoScanId THEN 1 ELSE 0)

\* ids that the filter {"scan_id": {"$ne": exclude_scan_id}} lets through;
\* keyless tells whether the index lets records without the key through
Eligible(idx, exclude_scan_id, keyless) ==
    {id \in ScanIds :
        /\ idx[id].present
        /\ \/ exclude_scan_id = NoScanId
           \/ idx[id].scan_id \notin {exclude_scan_id, NoScanId}
           \/ idx[id].scan_id = NoScanId /\ keyless}

PassesNoThreshold(match, similarity_threshold, exclude_scan_id) ==
    ~(exclude_scan_id # NoScanId /\ match.id = exclude_scan_id)

\* the two "continue" tests of the loop over query_response.matches
Passes(match, similarity_threshold, exclude_scan_id) ==
    /\ ~(match.score < similarity_threshold)
    /\ ~(exclude_scan_id # NoScanId /\ match.id = exclude_scan_id)

Kept(matches, similarity_threshold, exclude_scan_id) ==
    SelectSeq(matches, LAMBDA m : Passes(m, similarity_threshold, exclude_scan_id))

\* similar_scan = {"scan_id": match.id, "similarity_score": match.score, ...}
SimilarScan(match) ==
    [Match(match.id, match.score, match.metadata.complexity_score,
           JsonLoads(match.metadata.must_have_skills))
       EXCEPT !.role_category = match.metadata.role_category,
              !.experience_level = match.metadata.experience_level,
              !.recommended_regions = JsonLoads(match.metadata.recommended_regions)]

\* json.loads raises on the first surviving match with unparseable metadata
ProcessRaises(matches, similarity_threshold, exclude_scan_id) ==
    LET kept == Kept(matches, similarity_threshold, exclude_scan_id)
    IN  \E i \in 1..Len(kept) :
            \/ JsonLoadsRaises(kept[i].metadata.must_have_skills)
            \/ JsonLoadsRaises(kept[i].metadata.recommended_regions)

\* similar_scans[:top_k]
Truncate(scans, top_k) == Take(scans, top_k)

\* the loop over query_response.matches and the final truncation
ProcessMatches(matches, top_k, similarity_threshold, exclude_scan_id) ==
    LET kept == Kept(matches, similarity_threshold, exclude_scan_id)
    IN  Truncate([i \in 1..Len(kept) |-> SimilarScan(kept[i])], top_k)

\* except Exception: return []
OnFindError == <<>>

\* ------------------------------------------------------------------------
\* VectorSearchService._enrich_similar_scans
\* ------------------------------------------------------------------------
\* complexity >= 7 on a string, len() of None
EnrichRaises(scan) ==
    ~IsNum(scan.complexity_score) \/ ~IsList(scan.must_have_skills)

\* _analyze_match_reasons
MatchReasons(scan) ==
    Take(<<"Similar role">>
         \o (IF scan.complexity_score.val >= 7 THEN <<"High complexity role">>
             ELSE IF scan.complexity_score.val <= 3 THEN <<"Low complexity role">>
             ELSE <<>>)
         \o (IF Len(scan.must_have_skills.items) >= 4
             THEN <<"Rich skill requirements">> ELSE <<>>), 4)

\* what the loop appends for one scan: the enriched scan, or the original
\* scan when enriching it raised
EnrichScan(scan) ==
    IF EnrichRaises(scan) THEN <<scan>>
    ELSE <<[scan EXCEPT !.match_reasons = PyList(MatchReasons(scan))]>>

RECURSIVE EnrichSimilarScans(_)
EnrichSimilarScans(scans) ==
    IF scans = <<>> THEN <<>>
    ELSE EnrichScan(Head(scans)) \o EnrichSimilarScans(Tail(scans))

\* ------------------------------------------------------------------------
\* The store path: JobAnalyzer.store_analysis_vector,
\* VectorSearchService.store_market_scan_vector,
\* EmbeddingService.upsert_market_scan
\* ------------------------------------------------------------------------
\* vectors that the embedding provider returns
Vectors == {"v1", "v2"}

JsonDumpsReversed(s) == JsonArray([i \in 1..Len(s) |-> s[Len(s) + 1 - i]])

\* json.dumps of a list of strings
JsonDumps(s) == JsonArray(s)

\* analysis_dict of store_market_scan_vector
AnalysisDict(analysis) ==
    [role_category |-> analysis.role_category,
     experience_level |-> analysis.experience_level,
     complexity_score |-> analysis.complexity_score,
     remote_work_suitability |-> analysis.remote_work_suitability,
     must_have_skills |-> analysis.must_have_skills,
     recommended_regions |-> analysis.recommended_regions,
     years_experience_required |-> analysis.years_experience_required,
     key_responsibilities |-> analysis.key_responsibilities,
     unique_challenges |-> analysis.unique_challenges,
     salary_factors |-> analysis.salary_factors]

\* the vector handed to index.upsert: its values and its vector_metadata
Vector(scan_id, company_domain, client_name, analysis_dict, created_at, values) ==
    [present |-> TRUE, scan_id |-> scan_id,
     company_domain |-> company_domain, client_name |-> client_name,
     role_category |-> analysis_dict.role_category,
     experience_level |-> analysis_dict.experience_level,
     complexity_score |-> PyNum(analysis_dict.complexity_score),
     must_have_skills |-> JsonDumps(analysis_dict.must_have_skills),
     recommended_regions |-> JsonDumps(analysis_dict.recommended_regions),
     created_at |-> created_at, values |-> values]

UpsertKeepExisting(idx, id, vector) ==
    IF idx[id].present THEN idx ELSE [idx EXCEPT ![id] = vector]

\* index.upsert(vectors=[{"id": scan_id, ...}]): the vector replaces what the
\* index holds under its id
Upsert(idx, id, vector) == [idx EXCEPT ![id] = vector]

OnStoreErrorOptimistic == "True"

\* except Exception: return False
OnStoreError == "False"

AfterStoreAbortOnFalse(e, result) ==
    IF e # "process_market_scan_analysis" THEN "done"
    ELSE IF result = "False" THEN "mark_failed" ELSE "update_db"

\* where the caller of store_analysis_vector goes on: the workflow awaits
\* the call and does not look at its value
AfterStore(e, result) ==
    IF e = "process_market_scan_analysis" THEN "update_db" ELSE "done"

\* upsert_market_scan: generate_embedding returns
StoreEmbeddingOk ==
    /\ pc = "store_embedding"
    /\ embedding' \in Vectors
    /\ pc' = "upsert"
    /\ UNCHANGED <<entry, request, index, query_response, find_error, raised,
                   similar_scans, confidence, enriched_scans, job_analysis,
                   enhanced_analysis, store_call, store_error, store_result,
                   clock, stored, db, textVars, taskVars>>

\* upsert_market_scan: generate_embedding re-raises the provider's error; the
\* except clause returns False, which the two callers hand on
StoreEmbeddingFails ==
    /\ pc = "store_embedding"
    /\ raised' = raised \cup {"generate_embedding"}
    /\ store_error' = "embedding"
    /\ store_result' = OnStoreError
    /\ pc' = AfterStore(entry, store_result')
    /\ UNCHANGED <<entry, request, index, query_response, find_error,
                   similar_scans, confidence, enriched_scans, job_analysis,
                   enhanced_analysis, store_call, embedding, clock, stored, db,
                   textVars, taskVars>>

\* upsert_market_scan: index.upsert returns and True is handed to the caller
UpsertOk ==
    /\ pc = "upsert"
    /\ LET id == store_call.scan_id
       IN  /\ index' = Upsert(index, id,
                              Vector(id, store_call.company_domain,
                                     store_call.client_name,
                                     AnalysisDict(store_call.job_analysis),
                                     clock, embedding))
           /\ stored' = [stored EXCEPT ![id] =
                            [n |-> @.n + 1, call |-> store_call,
                             created_at |-> clock, values |-> embedding]]
    /\ store_result' = "True"
    /\ pc' = AfterStore(entry, store_result')
    /\ UNCHANGED <<entry, request, query_response, find_error, raised,
                   similar_scans, confidence, enriched_scans, job_analysis,
                   enhanced_analysis, store_call, embedding, store_error, clock,
                   db, textVars, taskVars>>

\* upsert_market_scan: index.upsert raises, the index having turned the
\* request down
UpsertFails ==
    /\ pc = "upsert"
    /\ raised' = raised \cup {"index.upsert"}
    /\ store_error' = "upsert"
    /\ store_result' = OnStoreError
    /\ pc' = AfterStore(entry, store_result')
    /\ UNCHANGED <<entry, request, index, query_response, find_error,
                   similar_scans, confidence, enriched_scans, job_analysis,
                   enhanced_analysis, store_call, embedding, clock, stored, db,
                   textVars, taskVars>>

\* ------------------------------------------------------------------------
\* The text handed to the embedding provider:
\* EmbeddingService._clean_text_for_embedding and the two f-strings
\* ------------------------------------------------------------------------
\* A text is a sequence of runs: n >= 1 repetitions of the character ch, no
\* two neighbouring runs of the same character.
Run(ch, n) == [ch |-> ch, n |-> n]

max_chars == 8000    \* max_chars = 8000

\* characters that str.split() splits at
Whitespace == {" ", "\n", "\t"}

AppendRun(text, r) ==
    IF text # <<>> /\ text[Len(text)].ch = r.ch
    THEN [text EXCEPT ![Len(text)].n = @ + r.n]
    ELSE Append(text, r)

\* a + b
RECURSIVE Concat(_, _)
Concat(a, b) == IF b = <<>> THEN a ELSE Concat(AppendRun(a, Head(b)), Tail(b))

\* a string literal, character by character
Literal(chars) == Concat(<<>>, [i \in 1..Len(chars) |-> Run(chars[i], 1)])

\* len(text)
RECURSIVE TextLen(_)
TextLen(text) == IF text = <<>> THEN 0 ELSE Head(text).n + TextLen(Tail(text))

\* text.split(): words is the list so far, cur the word being read
RECURSIVE SplitInto(_, _, _)
SplitInto(words, cur, rest) ==
    IF rest = <<>>
    THEN (IF cur = <<>> THEN words ELSE Append(words, cur))
    ELSE IF Head(rest).ch \in Whitespace
    THEN SplitInto(IF cur = <<>> THEN words ELSE Append(words, cur), <<>>, Tail(rest))
    ELSE SplitInto(words, AppendRun(cur, Head(rest)), Tail(rest))

Split(text) == SplitInto(<<>>, <<>>, text)

\* sep.join(words)
RECURSIVE Join(_, _)
Join(sep, words) ==
    IF words = <<>> THEN <<>>
    ELSE IF Len(words) = 1 THEN words[1]
    ELSE Concat(Concat(words[1], sep), Join(sep, Tail(words)))

\* text[:k]
RECURSIVE Slice(_, _)
Slice(text, k) ==
    IF text = <<>> \/ k = 0 THEN <<>>
    ELSE IF Head(text).n <= k
    THEN <<Head(text)>> \o Slice(Tail(text), k - Head(text).n)
    ELSE <<Run(Head(text).ch, k)>>

CleanTextNoTruncation(text) == Join(Literal(<<" ">>), Split(text))

\* _clean_text_for_embedding
CleanTextForEmbedding(text) ==
    LET clean_text == Join(Literal(<<" ">>), Split(text))
    IN  IF TextLen(clean_text) > max_chars
        THEN Concat(Slice(clean_text, max_chars), Literal(<<".", ".", ".">>))
        ELSE clean_text

TitleLabel == Literal(<<"J", "o", "b", " ", "T", "i", "t", "l", "e", ":", " ">>)
DescriptionLabel ==
    Literal(<<"\n", "\n", "J", "o", "b", " ", "D", "e", "s", "c", "r", "i", "p",
              "t", "i", "o", "n", ":", " ">>)

\* upsert_market_scan:
\* f"Job Title: {job_title}\n\nJob Description: {job_description}"
UpsertEmbeddingText(job_title, job_description) ==
    Concat(Concat(Concat(TitleLabel, job_title), DescriptionLabel), job_description)

FindEmbeddingTextTitleFirst(job_title, job_description) ==
    Concat(Concat(job_title, DescriptionLabel), job_description)

\* find_similar_scans:
\* f"Job Title: {job_title}\n\nJob Description: {job_description}"
FindEmbeddingText(job_title, job_description) ==
    Concat(Concat(Concat(TitleLabel, job_title), DescriptionLabel), job_description)

\* upsert_market_scan: the input of the provider call in generate_embedding
UpsertGenerateEmbedding ==
    /\ pc = "embedding_text"
    /\ provider_text.upsert = <<>>
    /\ provider_text' =
          [provider_text EXCEPT !.upsert =
              CleanTextForEmbedding(
                  UpsertEmbeddingText(posting.job_title, posting.job_description))]
    /\ UNCHANGED <<pc, entry, request, index, query_response, find_error, raised,
                   similar_scans, confidence, enriched_scans, job_analysis,
                   enhanced_analysis, storeVars, posting, taskVars>>

\* _clean_text_for_embedding called once more on the text of the posting
CleanSameInput ==
    /\ pc = "embedding_text"
    /\ provider_text.upsert # <<>>
    /\ provider_text.again = <<>>
    /\ provider_text' =
          [provider_text EXCEPT !.again =
              CleanTextForEmbedding(
                  UpsertEmbeddingText(posting.job_title, posting.job_description))]
    /\ UNCHANGED <<pc, entry, request, index, query_response, find_error, raised,
                   similar_scans, confidence, enriched_scans, job_analysis,
                   enhanced_analysis, storeVars, posting, taskVars>>

\* _clean_text_for_embedding called on the text that it returned
CleanOwnOutput ==
    /\ pc = "embedding_text"
    /\ provider_text.upsert # <<>>
    /\ provider_text.reclean = <<>>
    /\ provider_text' =
          [provider_text EXCEPT !.reclean = CleanTextForEmbedding(provider_text.upsert)]
    /\ UNCHANGED <<pc, entry, request, index, query_response, find_error, raised,
                   similar_scans, confidence, enriched_scans, job_analysis,
                   enhanced_analysis, storeVars, posting, taskVars>>

\* find_similar_scans: the input of the provider call in generate_embedding
FindGenerateEmbedding ==
    /\ pc = "embedding_text"
    /\ provider_text.find = <<>>
    /\ provider_text' =
          [provider_text EXCEPT !.find =
              CleanTextForEmbedding(
                  FindEmbeddingText(posting.job_title, posting.job_description))]
    /\ UNCHANGED <<pc, entry, request, index, query_response, find_error, raised,
                   similar_scans, confidence, enriched_scans, job_analysis,
                   enhanced_analysis, storeVars, posting, taskVars>>

\* ------------------------------------------------------------------------
\* Specification of the embedding text on arbitrary postings
\* ------------------------------------------------------------------------
MaxRuns == 2         \* most runs of characters in a title or description

\* characters and run lengths of the postings; the long runs reach max_chars
PostingChars == {"a", " ", "\n", "."}
RunLengths == {1, 2, max_chars - 40, max_chars}

\* texts of at most MaxRuns runs
Texts ==
    {t \in SeqsUpTo({Run(ch, n) : ch \in PostingChars, n \in RunLengths}, 0, MaxRuns) :
        \A i \in 1..(Len(t) - 1) : t[i].ch # t[i + 1].ch}

\* the long title puts the blank after it at character max_chars
Titles == {<<>>, <<Run("a", 2)>>, <<Run(" ", 2), Run("a", 1), Run("\n", 1)>>,
           <<Run("a", max_chars - 12)>>}

InitText ==
    /\ pc = "embedding_text"
    /\ entry = "none"
    /\ request = NoRequest
    /\ index = EmptyIndex
    /\ query_response = <<>>
    /\ find_error = "none"
    /\ raised = {}
    /\ similar_scans = <<>>
    /\ confidence = NoConfidence
    /\ enriched_scans = <<>>
    /\ job_analysis = NoAnalysis
    /\ enhanced_analysis = NoAnalysis
    /\ StoreIdle
    /\ posting \in [job_title : Titles, job_description : Texts]
    /\ provider_text = NoProviderText
    /\ tasks = NoTasks

NextText ==
    \/ UpsertGenerateEmbedding
    \/ FindGenerateEmbedding
    \/ CleanSameInput
    \/ CleanOwnOutput

SpecText == InitText /\ [][NextText]_vars

\* ------------------------------------------------------------------------
\* The request pipeline
\* ------------------------------------------------------------------------
\* requests of the endpoint GET /{scan_id}/similar
Thresholds == {0, 70, 75}
\* scores the index reports for a neighbour
QueryScoreVals == {0, 70, 90}

\* _fallback_analysis
FallbackAnalysis ==
    JobAnalysis(DefaultComplexity,
                <<"Communication", "Project Management", "Analytical Thinking">>,
                <<"Remote Work Experience", "Industry Knowledge">>)

\* what analyze_job can return: the parsed answer of the model, or the fallback
OracleAnalyses == {JobAnalysis(8, <<"excel">>, <<>>), FallbackAnalysis}

\* records that the index may hold under an id: a well-formed one, one whose
\* writer left the scan_id key out, one with a string for complexity_score,
\* one with unparseable skills, one with "null" for skills
RecordsFor(id) ==
    {NoRecord, Record(id, PyNum(6), JsonArray(<<"sql", "crm">>))}
    \cup (IF id = "s1"
          THEN {Record(NoScanId, PyNum(40), JsonArray(<<"crm", "sql", "seo">>))}
          ELSE {})
    \cup (IF id = "s2"
          THEN {Record(id, PyStr, JsonArray(<<"sql", "crm", "seo">>))}
          ELSE {})
    \cup (IF id = "s3"
          THEN {Record(id, PyNum(40), NotJson), Record(id, PyNum(-40), JsonNull)}
          ELSE {})

IndexContents == {idx \in [ScanIds -> UNION {RecordsFor(id) : id \in ScanIds}] :
                    \A id \in ScanIds : idx[id] \in RecordsFor(id)}

Init ==
    /\ pc = "idle"
    /\ entry = "none"
    /\ request = NoRequest
    /\ index \in IndexContents
    /\ query_response = <<>>
    /\ find_error = "none"
    /\ raised = {}
    /\ similar_scans = <<>>
    /\ confidence = NoConfidence
    /\ enriched_scans = <<>>
    /\ job_analysis = NoAnalysis
    /\ enhanced_analysis = NoAnalysis
    /\ StoreIdle
    /\ TextIdle
    /\ tasks = NoTasks

\* VectorSearchService.find_similar_market_scans called by the endpoint
\* GET /{scan_id}/similar or directly
StartSimilar ==
    /\ pc = "idle"
    /\ entry' = "find_similar_market_scans"
    /\ \E id \in {NoScanId, "s1"}, t \in Thresholds, k \in 1..MaxResults :
          request' = [current_scan_id |-> id, similarity_threshold |-> t,
                      max_results |-> k]
    /\ pc' = "generate_embedding"
    /\ UNCHANGED <<index, query_response, find_error, raised, similar_scans,
                   confidence, enriched_scans, job_analysis, enhanced_analysis>>
    /\ UNCHANGED <<storeVars, textVars, taskVars>>

\* JobAnalyzer.analyze_job_with_similar_scans up to its call of
\* find_similar_market_scans
StartAnalysis ==
    /\ pc = "idle"
    /\ entry' = "analyze_job_with_similar_scans"
    /\ job_analysis' \in OracleAnalyses
    /\ \E id \in {NoScanId, "s1"} :
          request' = [current_scan_id |-> id,
                      similarity_threshold |-> AnalysisThreshold,
                      max_results |-> AnalysisMaxResults]
    /\ pc' = "generate_embedding"
    /\ UNCHANGED <<index, query_response, find_error, raised, similar_scans,
                   confidence, enriched_scans, enhanced_analysis>>
    /\ UNCHANGED <<storeVars, textVars, taskVars>>

\* find_similar_scans: generate_embedding returns
GenerateEmbeddingOk ==
    /\ pc = "generate_embedding"
    /\ pc' = "index_query"
    /\ UNCHANGED <<entry, request, index, query_response, find_error, raised,
                   similar_scans, confidence, enriched_scans, job_analysis,
                   enhanced_analysis>>
    /\ UNCHANGED <<storeVars, textVars, taskVars>>

\* find_similar_scans: generate_embedding re-raises the provider's error and
\* the except clause of find_similar_scans returns
GenerateEmbeddingFails ==
    /\ pc = "generate_embedding"
    /\ raised' = raised \cup {"generate_embedding"}
    /\ find_error' = "embedding"
    /\ similar_scans' = OnFindError
    /\ pc' = "calculate_confidence"
    /\ UNCHANGED <<entry, request, index, query_response, confidence,
                   enriched_scans, job_analysis, enhanced_analysis>>
    /\ UNCHANGED <<storeVars, textVars, taskVars>>

\* the answers index.query can give: top_k neighbours (fewer when the index
\* holds fewer) with their scores, in the order the index hands them back
Responses(idx, top_k, eligible) ==
    LET n == Min(top_k, Cardinality(eligible))
    IN  {[i \in 1..n |-> Neighbor(ids[i], scores[i], idx[ids[i]])] :
            ids \in {p \in [1..n -> eligible] :
                        \A i, j \in 1..n : p[i] = p[j] => i = j},
            scores \in [1..n -> QueryScoreVals]}

\* find_similar_scans: index.query returns; the loop, the truncation and
\* the except clause
QueryIndexOk ==
    /\ pc = "index_query"
    /\ \E keyless \in BOOLEAN :
       \E matches \in Responses(index,
                        QueryTopK(request.max_results, request.current_scan_id),
                        Eligible(index, request.current_scan_id, keyless)) :
          /\ query_response' = matches
          /\ IF ProcessRaises(matches, request.similarity_threshold,
                              request.current_scan_id)
             THEN /\ find_error' = "metadata"
                  /\ similar_scans' = OnFindError
             ELSE /\ find_error' = find_error
                  /\ similar_scans' =
                        ProcessMatches(matches, request.max_results,
                                       request.similarity_threshold,
                                       request.current_scan_id)
    /\ pc' = "calculate_confidence"
    /\ UNCHANGED <<entry, request, index, raised, confidence, enriched_scans,
                   job_analysis, enhanced_analysis>>
    /\ UNCHANGED <<storeVars, textVars, taskVars>>

\* find_similar_scans: index.query raises and the except clause returns
QueryIndexFails ==
    /\ pc = "index_query"
    /\ find_error' = "query"
    /\ similar_scans' = OnFindError
    /\ pc' = "calculate_confidence"
    /\ UNCHANGED <<entry, request, index, query_response, raised, confidence,
                   enriched_scans, job_analysis, enhanced_analysis>>
    /\ UNCHANGED <<storeVars, textVars, taskVars>>

\* find_similar_market_scans: _enrich_similar_scans and the return
AfterEnrichSkipEnhance(e) ==
    IF e = "find_similar_market_scans" THEN "done"
    ELSE IF e = "process_market_scan_analysis" THEN "salary" ELSE "enhance"

\* where the caller of find_similar_market_scans goes on:
\* analyze_job_with_similar_scans enhances the analysis with the matches
AfterEnrich(e) == IF e = "find_similar_market_scans" THEN "done" ELSE "enhance"

Enrich ==
    /\ pc = "enrich"
    /\ entry # "none"
    /\ enriched_scans' = EnrichSimilarScans(similar_scans)
    /\ pc' = AfterEnrich(entry)
    /\ UNCHANGED <<entry, request, index, query_response, find_error, raised,
                   similar_scans, confidence, job_analysis, enhanced_analysis>>
    /\ UNCHANGED <<storeVars, textVars, taskVars>>

\* ------------------------------------------------------------------------
\* The scan-completion workflow process_market_scan_analysis
\* ------------------------------------------------------------------------
\* ids of the scans that the workflow runs for
WorkflowIds == {"s1"}

\* create_market_scan has written the row with status "analyzing" and the
\* background task starts: analyze_job_with_similar_scans up to its call of
\* find_similar_market_scans
StartWorkflow ==
    /\ pc = "idle"
    /\ entry' = "process_market_scan_analysis"
    /\ job_analysis' \in OracleAnalyses
    /\ \E id \in WorkflowIds :
          request' = [current_scan_id |-> id,
                      similarity_threshold |-> AnalysisThreshold,
                      max_results |-> AnalysisMaxResults]
    /\ db' = [db EXCEPT !.status = "analyzing"]
    /\ pc' = "generate_embedding"
    /\ UNCHANGED <<index, query_response, find_error, raised, similar_scans,
                   confidence, enriched_scans, enhanced_analysis, store_call,
                   embedding, store_error, store_result, clock, stored,
                   textVars, taskVars>>

\* step 2: calculate_salary_recommendations returns
CalculateSalaryOk ==
    /\ pc = "salary"
    /\ pc' = "store"
    /\ UNCHANGED <<entry, request, index, query_response, find_error, raised,
                   similar_scans, confidence, enriched_scans, job_analysis,
                   enhanced_analysis, storeVars, textVars, taskVars>>

\* step 2: calculate_salary_recommendations raises into the except clause
CalculateSalaryFails ==
    /\ pc = "salary"
    /\ raised' = raised \cup {"calculate_salary_recommendations"}
    /\ pc' = "mark_failed"
    /\ UNCHANGED <<entry, request, index, query_response, find_error,
                   similar_scans, confidence, enriched_scans, job_analysis,
                   enhanced_analysis, storeVars, textVars, taskVars>>

\* step 3: store_analysis_vector is called with the analysis that
\* analyze_job_with_similar_scans returned and created_at=datetime.now()
StoreAnalysisVector ==
    /\ pc = "store"
    /\ store_call' = [scan_id |-> request.current_scan_id,
                      job_analysis |-> enhanced_analysis,
                      company_domain |-> PyStr, client_name |-> PyStr]
    /\ clock' = clock + 1
    /\ pc' = "store_embedding"
    /\ UNCHANGED <<entry, request, index, query_response, find_error, raised,
                   similar_scans, confidence, enriched_scans, job_analysis,
                   enhanced_analysis, embedding, store_error, store_result,
                   stored, db, textVars, taskVars>>

CompletedRowBaseline(analysis, confidence_score) ==
    [status |-> "completed", job_analysis |-> job_analysis,
     confidence_score |-> confidence_score]

\* update_data of the completed scan
CompletedRow(analysis, confidence_score) ==
    [status |-> "completed", job_analysis |-> analysis,
     confidence_score |-> confidence_score]

\* db.update_market_scan(scan_id, update_data) returns
UpdateDbOk ==
    /\ pc = "update_db"
    /\ db' = CompletedRow(enhanced_analysis, confidence)
    /\ pc' = "done"
    /\ UNCHANGED <<entry, request, index, query_response, find_error, raised,
                   similar_scans, confidence, enriched_scans, job_analysis,
                   enhanced_analysis, store_call, embedding, store_error,
                   store_result, clock, stored, textVars, taskVars>>

\* db.update_market_scan raises into the except clause
UpdateDbFails ==
    /\ pc = "update_db"
    /\ raised' = raised \cup {"update_market_scan"}
    /\ pc' = "mark_failed"
    /\ UNCHANGED <<entry, request, index, query_response, find_error,
                   similar_scans, confidence, enriched_scans, job_analysis,
                   enhanced_analysis, storeVars, textVars, taskVars>>

\* except clause: db.update_market_scan(scan_id, {'status': 'failed', ...})
MarkFailedOk ==
    /\ pc = "mark_failed"
    /\ db' = [db EXCEPT !.status = "failed"]
    /\ pc' = "done"
    /\ UNCHANGED <<entry, request, index, query_response, find_error, raised,
                   similar_scans, confidence, enriched_scans, job_analysis,
                   enhanced_analysis, store_call, embedding, store_error,
                   store_result, clock, stored, textVars, taskVars>>

\* except clause: the update to 'failed' raises out of the background task
MarkFailedFails ==
    /\ pc = "mark_failed"
    /\ raised' = raised \cup {"update_market_scan", "process_market_scan_analysis"}
    /\ pc' = "done"
    /\ UNCHANGED <<entry, request, index, query_response, find_error,
                   similar_scans, confidence, enriched_scans, job_analysis,
                   enhanced_analysis, storeVars, textVars, taskVars>>

Next ==
    \/ StartSimilar
    \/ StartAnalysis
    \/ StartWorkflow
    \/ GenerateEmbeddingOk
    \/ GenerateEmbeddingFails
    \/ QueryIndexOk
    \/ QueryIndexFails
    \/ CalculateConfidence
    \/ Enrich
    \/ Enhance
    \/ CalculateSalaryOk
    \/ CalculateSalaryFails
    \/ StoreAnalysisVector
    \/ StoreEmbeddingOk
    \/ StoreEmbeddingFails
    \/ UpsertOk
    \/ UpsertFails
    \/ UpdateDbOk
    \/ UpdateDbFails
    \/ MarkFailedOk
    \/ MarkFailedFails

Spec == Init /\ [][Next]_vars

\* ------------------------------------------------------------------------
\* External calls that do not return
\* ------------------------------------------------------------------------
\* The calls of the provider and of the index are synchronous calls made
\* with no timeout argument and not wrapped in asyncio.wait_for: while one
\* of them has not returned, the coroutine of the request is blocked in it.

\* generate_embedding: openai_client.embeddings.create does not return
GenerateEmbeddingHangs ==
    /\ pc = "generate_embedding"
    /\ pc' = "generate_embedding_blocked"
    /\ UNCHANGED <<entry, request, index, query_response, find_error, raised,
                   similar_scans, confidence, enriched_scans, job_analysis,
                   enhanced_analysis, storeVars, textVars, taskVars>>

\* find_similar_scans: index.query does not return
QueryIndexHangs ==
    /\ pc = "index_query"
    /\ pc' = "index_query_blocked"
    /\ UNCHANGED <<entry, request, index, query_response, find_error, raised,
                   similar_scans, confidence, enriched_scans, job_analysis,
                   enhanced_analysis, storeVars, textVars, taskVars>>

\* upsert_market_scan: the embeddings call of the write path does not return
StoreEmbeddingHangs ==
    /\ pc = "store_embedding"
    /\ pc' = "store_embedding_blocked"
    /\ UNCHANGED <<entry, request, index, query_response, find_error, raised,
                   similar_scans, confidence, enriched_scans, job_analysis,
                   enhanced_analysis, storeVars, textVars, taskVars>>

\* upsert_market_scan: index.upsert does not return
UpsertHangs ==
    /\ pc = "upsert"
    /\ pc' = "upsert_blocked"
    /\ UNCHANGED <<entry, request, index, query_response, find_error, raised,
                   similar_scans, confidence, enriched_scans, job_analysis,
                   enhanced_analysis, storeVars, textVars, taskVars>>

NextHang ==
    \/ Next
    \/ GenerateEmbeddingHangs
    \/ QueryIndexHangs
    \/ StoreEmbeddingHangs
    \/ UpsertHangs

\* every step of the request that can be taken is taken eventually
SpecHang == Init /\ [][NextHang]_vars /\ WF_vars(NextHang)

\* ------------------------------------------------------------------------
\* Two requests side by side: analyze_job_with_similar_scans followed by
\* store_analysis_vector, each in its own coroutine, against the one index
\* ------------------------------------------------------------------------
\* The module-level objects embedding_service and vector_search_service are
\* shared by the requests; their attributes are assigned in __init__ only.
\* Everything else a request works on is a local of its coroutine.

\* the scan that a request analyses
TaskScanId(t) == IF t = "t1" THEN "s1" ELSE "s2"

\* the index before the two requests: a neighbour under s3, or nothing
PairIndexContents ==
    {[EmptyIndex EXCEPT !["s3"] = rec] :
        rec \in {NoRecord, Record("s3", PyNum(6), JsonArray(<<"sql", "crm">>)),
                 Record("s3", PyNum(40), NotJson)}}

InitPair ==
    /\ pc = "idle"
    /\ entry = "none"
    /\ request = NoRequest
    /\ index \in PairIndexContents
    /\ query_response = <<>>
    /\ find_error = "none"
    /\ raised = {}
    /\ similar_scans = <<>>
    /\ confidence = NoConfidence
    /\ enriched_scans = <<>>
    /\ job_analysis = NoAnalysis
    /\ enhanced_analysis = NoAnalysis
    /\ StoreIdle
    /\ TextIdle
    /\ tasks = NoTasks

TaskMatchesOfFirst(ts, t) == ts["t1"].similar_scans

\* the list that find_similar_market_scans hands to _calculate_confidence_score
\* and to _enrich_similar_scans: its local similar_scans
TaskMatches(ts, t) == ts[t].similar_scans

\* analyze_job returns the baseline analysis of the request
TaskAnalyze ==
    \E t \in Tasks :
        /\ tasks[t].pc = "idle"
        /\ \E analysis \in OracleAnalyses :
              tasks' = [tasks EXCEPT ![t].job_analysis = analysis,
                                     ![t].pc = "index_query"]
        /\ UNCHANGED <<pc, index, entry, request, query_response, find_error, raised,
                   similar_scans, confidence, enriched_scans, job_analysis,
                   enhanced_analysis, storeVars, textVars>>

\* find_similar_scans: the embedding call and index.query return; the loop,
\* the truncation and the except clause
TaskQueryIndexOk ==
    \E t \in Tasks :
        /\ tasks[t].pc = "index_query"
        /\ \E keyless \in BOOLEAN :
           \E matches \in Responses(index,
                            QueryTopK(AnalysisMaxResults, TaskScanId(t)),
                            Eligible(index, TaskScanId(t), keyless)) :
              tasks' = [tasks EXCEPT
                  ![t].seen = index,
                  ![t].query_response = matches,
                  ![t].find_error =
                      IF ProcessRaises(matches, AnalysisThreshold, TaskScanId(t))
                      THEN "metadata" ELSE "none",
                  ![t].similar_scans =
                      IF ProcessRaises(matches, AnalysisThreshold, TaskScanId(t))
                      THEN OnFindError
                      ELSE ProcessMatches(matches, AnalysisMaxResults,
                                          AnalysisThreshold, TaskScanId(t)),
                  ![t].pc = "calculate_confidence"]
        /\ UNCHANGED <<pc, index, entry, request, query_response, find_error, raised,
                   similar_scans, confidence, enriched_scans, job_analysis,
                   enhanced_analysis, storeVars, textVars>>

\* find_similar_scans: the embedding call or index.query raises
TaskQueryIndexFails ==
    \E t \in Tasks :
        /\ tasks[t].pc = "index_query"
        /\ tasks' = [tasks EXCEPT ![t].seen = index,
                                  ![t].find_error = "query",
                                  ![t].similar_scans = OnFindError,
                                  ![t].pc = "calculate_confidence"]
        /\ UNCHANGED <<pc, index, entry, request, query_response, find_error, raised,
                   similar_scans, confidence, enriched_scans, job_analysis,
                   enhanced_analysis, storeVars, textVars>>

\* find_similar_market_scans: _calculate_confidence_score(similar_scans)
TaskCalculateConfidence ==
    \E t \in Tasks :
        /\ tasks[t].pc = "calculate_confidence"
        /\ tasks' = [tasks EXCEPT
               ![t].confidence = CalculateConfidenceScore(TaskMatches(tasks, t)),
               ![t].pc = "enrich"]
        /\ UNCHANGED <<pc, index, entry, request, query_response, find_error, raised,
                   similar_scans, confidence, enriched_scans, job_analysis,
                   enhanced_analysis, storeVars, textVars>>

\* find_similar_market_scans: _enrich_similar_scans(similar_scans)
TaskEnrich ==
    \E t \in Tasks :
        /\ tasks[t].pc = "enrich"
        /\ tasks' = [tasks EXCEPT
               ![t].enriched_scans = EnrichSimilarScans(tasks[t].similar_scans),
               ![t].pc = "enhance"]
        /\ UNCHANGED <<pc, index, entry, request, query_response, find_error, raised,
                   similar_scans, confidence, enriched_scans, job_analysis,
                   enhanced_analysis, storeVars, textVars>>

\* _enhance_analysis_with_similar_scans(job_analysis, similar_scans)
TaskEnhance ==
    \E t \in Tasks :
        /\ tasks[t].pc = "enhance"
        /\ \E order \in SkillOrders(tasks[t].enriched_scans) :
              tasks' = [tasks EXCEPT
                  ![t].enhanced_analysis =
                      EnhanceAnalysis(tasks[t].job_analysis,
                                      tasks[t].enriched_scans, order),
                  ![t].pc = "store"]
        /\ UNCHANGED <<pc, index, entry, request, query_response, find_error, raised,
                   similar_scans, confidence, enriched_scans, job_analysis,
                   enhanced_analysis, storeVars, textVars>>

\* store_analysis_vector: the vector of the request replaces what the index
\* holds under its scan id
TaskStore ==
    \E t \in Tasks :
        /\ tasks[t].pc = "store"
        /\ index' = Upsert(index, TaskScanId(t),
                           Vector(TaskScanId(t), PyStr, PyStr,
                                  AnalysisDict(tasks[t].enhanced_analysis),
                                  clock, "v1"))
        /\ tasks' = [tasks EXCEPT ![t].pc = "done"]
        /\ UNCHANGED <<pc, entry, request, query_response, find_error, raised,
                   similar_scans, confidence, enriched_scans, job_analysis,
                   enhanced_analysis, storeVars, textVars>>

NextPair ==
    \/ TaskAnalyze
    \/ TaskQueryIndexOk
    \/ TaskQueryIndexFails
    \/ TaskCalculateConfidence
    \/ TaskEnrich
    \/ TaskEnhance
    \/ TaskStore

SpecPair == InitPair /\ [][NextPair]_vars

\* ------------------------------------------------------------------------
\* Specification of store calls followed by searches
\* ------------------------------------------------------------------------
MaxStores == 2       \* most calls of store_analysis_vector in a run

\* ids and analyses that store_analysis_vector is called with
StoreIds == {"s1", "s2"}
StoreAnalyses ==
    {JobAnalysis(8, <<"excel", "sql">>, <<>>),
     [JobAnalysis(3, <<"crm">>, <<"seo">>) EXCEPT
        !.role_category = "Operations Manager",
        !.experience_level = "senior",
        !.recommended_regions = <<"South Africa">>]}

\* what a caller passes for company_domain and client_name: a string or None
CallerValues == {PyStr, PyNone}

\* what the index holds before the first call
StoreIndexContents ==
    {EmptyIndex,
     [EmptyIndex EXCEPT !["s1"] = Record("s1", PyNum(6), JsonArray(<<"sql", "crm">>))]}

InitStore ==
    /\ pc = "idle"
    /\ entry = "none"
    /\ request = NoRequest
    /\ index \in StoreIndexContents
    /\ query_response = <<>>
    /\ find_error = "none"
    /\ raised = {}
    /\ similar_scans = <<>>
    /\ confidence = NoConfidence
    /\ enriched_scans = <<>>
    /\ job_analysis = NoAnalysis
    /\ enhanced_analysis = NoAnalysis
    /\ StoreIdle
    /\ TextIdle
    /\ tasks = NoTasks

\* JobAnalyzer.store_analysis_vector called with created_at=datetime.now()
StartStore ==
    /\ pc = "idle"
    /\ clock < MaxStores
    /\ entry' = "store_analysis_vector"
    /\ \E id \in StoreIds, analysis \in StoreAnalyses,
          company_domain \in CallerValues, client_name \in CallerValues :
          store_call' = [scan_id |-> id, job_analysis |-> analysis,
                         company_domain |-> company_domain,
                         client_name |-> client_name]
    /\ clock' = clock + 1
    /\ pc' = "store_embedding"
    /\ UNCHANGED <<request, index, query_response, find_error, raised,
                   similar_scans, confidence, enriched_scans, job_analysis,
                   enhanced_analysis, embedding, store_error, store_result,
                   stored, db, textVars, taskVars>>

\* the call has returned and the caller goes on to its next call
Return ==
    /\ pc = "done"
    /\ pc' = "idle"
    /\ entry' = "none"
    /\ request' = NoRequest
    /\ query_response' = <<>>
    /\ find_error' = "none"
    /\ raised' = {}
    /\ similar_scans' = <<>>
    /\ confidence' = NoConfidence
    /\ enriched_scans' = <<>>
    /\ store_call' = NoStoreCall
    /\ embedding' = NoVector
    /\ store_error' = "none"
    /\ store_result' = "none"
    /\ UNCHANGED <<index, job_analysis, enhanced_analysis, clock, stored, db,
                   textVars, taskVars>>

NextStore ==
    \/ StartStore
    \/ StoreEmbeddingOk
    \/ StoreEmbeddingFails
    \/ UpsertOk
    \/ UpsertFails
    \/ StartSimilar
    \/ GenerateEmbeddingOk
    \/ GenerateEmbeddingFails
    \/ QueryIndexOk
    \/ QueryIndexFails
    \/ CalculateConfidence
    \/ Enrich
    \/ Return

SpecStore == InitStore /\ [][NextStore]_vars

\* ------------------------------------------------------------------------
\* Properties of the confidence scorer (SpecScore)
\* ------------------------------------------------------------------------
Scored == pc = "enrich"

\* C1 as claimed: the confidence of every non-empty match list is strictly
\* greater than 0 and at most 1.0; the confidence of the empty list is
\* exactly 0.0.
C1_ConfidenceBounds ==
    Scored =>
        IF similar_scans = <<>>
        THEN confidence = ZeroConfidence
        ELSE ConfGT(confidence, 0) /\ ConfLE(confidence, ScoreScale)

\* C1 amended: the confidence of every non-empty match list with
\* non-negative scores is at least 0 and at most 1.0, and strictly greater
\* than 0 when the top-ranked score is; the confidence of the empty list is
\* exactly 0.0.
C1_ConfidenceBoundsAmended ==
    Scored =>
        IF similar_scans = <<>>
        THEN confidence = ZeroConfidence
        ELSE (\A i \in 1..Len(similar_scans) : similar_scans[i].similarity_score >= 0)
             => /\ ConfGE(confidence, 0)
                /\ ConfLE(confidence, ScoreScale)
                /\ similar_scans[1].similarity_score > 0 => ConfGT(confidence, 0)

\* a list whose weighted average overshoots 1.0 has been scored and capped
C1_Witness ==
    /\ Scored
    /\ Len(similar_scans) >= TopN
    /\ \A i \in 1..TopN : similar_scans[i].similarity_score > ScoreScale
    /\ confidence.num = ScoreScale * confidence.den

\* c1 <= c2 as floats
ConfLeq(c1, c2) ==
    \/ c1.num * c2.den < c2.num * c1.den
    \/ c1.num * c2.den = c2.num * c1.den /\ c1.ulp <= c2.ulp

\* the match list with the score at rank i replaced by s
Replaced(scans, i, s) == [scans EXCEPT ![i].similarity_score = s]

\* C16: replacing the similarity_score at any one rank by a strictly larger
\* value, all other matches and all ranks kept, never decreases the
\* confidence.
C16_ConfidenceMonotone ==
    Scored =>
        \A i \in 1..Len(similar_scans), s \in ScoreVals :
            s > similar_scans[i].similarity_score
                => ConfLeq(confidence,
                           CalculateConfidenceScore(Replaced(similar_scans, i, s)))

\* a larger score at the second rank gives a strictly larger confidence
C16_Witness ==
    /\ Scored
    /\ Len(similar_scans) >= 2
    /\ \E s \in ScoreVals :
          /\ s > similar_scans[2].similarity_score
          /\ ~ConfLeq(CalculateConfidenceScore(Replaced(similar_scans, 2, s)),
                      confidence)

\* sum of score_i / (i + 1) over the first n ranks, over a common denominator
FormulaNum(scores, n) ==
    IF n = 1 THEN scores[1]
    ELSE IF n = 2 THEN 2 * scores[1] + scores[2]
    ELSE 6 * scores[1] + 3 * scores[2] + 2 * scores[3]

\* sum of 1 / (i + 1) over the first n ranks, over the same denominator
FormulaDen(n) == IF n = 1 THEN 1 ELSE IF n = 2 THEN 3 ELSE 11

\* C18: for n >= 1 matches the confidence is, up to the rounding of float64
\* arithmetic, the sum of score_i / (i + 1) over i < min(3, n) divided by the
\* sum of 1 / (i + 1) over the same i, capped at 1.0; the scores at rank 3
\* and beyond have no influence on it.
C18_ConfidenceFormula ==
    (Scored /\ Len(similar_scans) >= 1) =>
        LET n == Min(3, Len(similar_scans))
            num == FormulaNum([i \in 1..n |-> similar_scans[i].similarity_score], n)
            den == FormulaDen(n)
        IN  /\ IF num > ScoreScale * den
               THEN confidence.num = ScoreScale * confidence.den
               ELSE confidence.num * den = num * confidence.den
            /\ \A i \in 4..Len(similar_scans), s \in ScoreVals :
                  CalculateConfidenceScore(Replaced(similar_scans, i, s)) = confidence

\* four matches below the cap, the fourth scoring higher than the first
C18_Witness ==
    /\ Scored
    /\ Len(similar_scans) = 4
    /\ similar_scans[4].similarity_score > similar_scans[1].similarity_score
    /\ similar_scans[1].similarity_score > similar_scans[2].similarity_score
    /\ similar_scans[2].similarity_score > similar_scans[3].similarity_score
    /\ similar_scans[3].similarity_score > 0
    /\ confidence.num * 11
         = (6 * similar_scans[1].similarity_score
            + 3 * similar_scans[2].similarity_score
            + 2 * similar_scans[3].similarity_score) * confidence.den

\* ------------------------------------------------------------------------
\* Properties of the enhancer (SpecEnhance)
\* ------------------------------------------------------------------------
Enhanced == pc = "done"

IsPrefix(s, t) == Len(s) <= Len(t) /\ SubSeq(t, 1, Len(s)) = s

\* C2: with fewer than 2 matches the enhanced analysis equals the baseline
\* in every field.
C2_Passthrough ==
    (Enhanced /\ Len(enriched_scans) < 2) => enhanced_analysis = job_analysis

\* one well-formed match whose complexity differs from the baseline's
C2_Witness ==
    /\ Enhanced
    /\ Len(enriched_scans) = 1
    /\ IsList(enriched_scans[1].must_have_skills)
    /\ IsNum(enriched_scans[1].complexity_score)
    /\ enriched_scans[1].complexity_score.val > MaxComplexity
    /\ job_analysis.complexity_score = MinComplexity

\* C3: must_have_skills is the baseline's, and nice_to_have_skills is the
\* baseline's list followed by at most 2 further entries.
C3_SkillAppendOnly ==
    Enhanced =>
        /\ enhanced_analysis.must_have_skills = job_analysis.must_have_skills
        /\ IsPrefix(job_analysis.nice_to_have_skills,
                    enhanced_analysis.nice_to_have_skills)
        /\ Len(enhanced_analysis.nice_to_have_skills)
             <= Len(job_analysis.nice_to_have_skills) + 2

\* three skills qualified and two of them were appended
C3_Witness ==
    /\ Enhanced
    /\ Len(enriched_scans) >= 2
    /\ ~EnhanceRaises(enriched_scans)
    /\ \E order \in SkillOrders(enriched_scans) :
          Len(FrequentSimilarSkills(job_analysis, enriched_scans, order)) = 3
    /\ Len(enhanced_analysis.nice_to_have_skills)
         = Len(job_analysis.nice_to_have_skills) + 2

\* C4: with 2 or more matches the enhanced complexity_score is an integer
\* in [1,10], whatever complexity values the matches carry.
C4_ComplexityBounds ==
    (Enhanced /\ Len(enriched_scans) >= 2)
        => enhanced_analysis.complexity_score \in MinComplexity..MaxComplexity

\* the blend of out-of-range neighbour complexities was clamped to 10
C4_Witness ==
    /\ Enhanced
    /\ Len(enriched_scans) >= 2
    /\ ~EnhanceRaises(enriched_scans)
    /\ AdjustedComplexity(job_analysis.complexity_score, enriched_scans) > MaxComplexity
    /\ enhanced_analysis.complexity_score = MaxComplexity

FrameFields ==
    {"role_category", "experience_level", "years_experience_required",
     "must_have_skills", "key_responsibilities", "remote_work_suitability",
     "recommended_regions", "unique_challenges", "salary_factors"}

\* C5: the enhanced analysis differs from the baseline at most in
\* complexity_score and nice_to_have_skills.
C5_Frame ==
    Enhanced =>
        /\ DOMAIN enhanced_analysis = DOMAIN job_analysis
        /\ \A f \in FrameFields : enhanced_analysis[f] = job_analysis[f]

\* both permitted fields were changed by the enhancement
C5_Witness ==
    /\ Enhanced
    /\ enhanced_analysis.complexity_score # job_analysis.complexity_score
    /\ enhanced_analysis.nice_to_have_skills # job_analysis.nice_to_have_skills

MalformedMatch(scan) ==
    ~IsNum(scan.complexity_score) \/ ~IsList(scan.must_have_skills)

\* C11: when a match carries a non-numeric complexity_score or a non-list
\* skills field, the returned analysis equals the baseline in every field:
\* no skill was appended and the complexity was not changed.
C11_FailureFallback ==
    (Enhanced /\ \E i \in 1..Len(enriched_scans) : MalformedMatch(enriched_scans[i]))
        => enhanced_analysis = job_analysis

\* the sum over the complexities raised after a qualifying skill had been
\* appended to the copy
C11_Witness ==
    /\ Enhanced
    /\ Len(enriched_scans) >= 2
    /\ \A i \in 1..Len(enriched_scans) : IsList(enriched_scans[i].must_have_skills)
    /\ \E i \in 1..Len(enriched_scans) : ~IsNum(enriched_scans[i].complexity_score)
    /\ \E order \in SkillOrders(enriched_scans) :
          AddedSkills(job_analysis, enriched_scans, order) # <<>>
    /\ enhanced_analysis = job_analysis

WellFormed(scans) == \A i \in 1..Len(scans) : ~MalformedMatch(scans[i])

\* round(a / d) for d > 0: the nearest integer, a tie going to the even one
RoundHalfEven(a, d) ==
    LET q == a \div d
        r == a - q * d
    IN  IF 2 * r < d THEN q
        ELSE IF 2 * r > d THEN q + 1
        ELSE IF q % 2 = 0 THEN q ELSE q + 1

\* C19: with 2 or more well-formed matches of mean complexity a, the
\* enhanced complexity_score is round(b * 0.7 + a * 0.3), rounded to the
\* nearest integer and clamped to [1,10], b being the baseline's complexity.
C19_RoundedBlend ==
    (Enhanced /\ Len(enriched_scans) >= 2 /\ WellFormed(enriched_scans)) =>
        LET n == Len(enriched_scans)
            total == SumComplexity(enriched_scans, n)
            rounded == RoundHalfEven(7 * job_analysis.complexity_score * n + 3 * total,
                                     10 * n)
        IN  enhanced_analysis.complexity_score
              = Max(MinComplexity, Min(MaxComplexity, rounded))

\* the skills of the matches in the order in which they are first seen
\* across the ordered match list
RECURSIVE FirstSeen(_, _)
FirstSeen(seen, skills) ==
    IF skills = <<>> THEN seen
    ELSE FirstSeen(IF Head(skills) \in SeqToSet(seen) THEN seen
                   ELSE Append(seen, Head(skills)),
                   Tail(skills))

RECURSIVE AllSkills(_)
AllSkills(scans) ==
    IF scans = <<>> THEN <<>>
    ELSE Head(scans).must_have_skills.items \o AllSkills(Tail(scans))

\* C20: with 2 or more well-formed matches, the skills appended to
\* nice_to_have_skills are the first min(2,k) of the k qualifying skills in
\* first-seen order across the ordered match list, a skill qualifying iff
\* it is in the must_have_skills of at least 2 matches and in neither skill
\* list of the baseline; the selection is the same on every run.
C20_FirstSeenSelection ==
    (Enhanced /\ Len(enriched_scans) >= 2 /\ WellFormed(enriched_scans)) =>
        LET Qualifies(skill) ==
                /\ skill \notin SeqToSet(job_analysis.must_have_skills)
                /\ skill \notin SeqToSet(job_analysis.nice_to_have_skills)
                /\ Cardinality({i \in 1..Len(enriched_scans) :
                        skill \in SeqToSet(enriched_scans[i].must_have_skills.items)}) >= 2
            qualifying == SelectSeq(FirstSeen(<<>>, AllSkills(enriched_scans)), Qualifies)
        IN  enhanced_analysis.nice_to_have_skills
              = job_analysis.nice_to_have_skills
                  \o SubSeq(qualifying, 1, Min(2, Len(qualifying)))

\* ------------------------------------------------------------------------
\* Properties of find_similar_scans and of the composed entry points (Spec)
\* ------------------------------------------------------------------------
FindReturned ==
    entry # "none" /\ pc \in {"calculate_confidence", "enrich", "enhance", "done"}

MarketReturned == entry # "none" /\ pc \in {"enhance", "done"}

AnalysisReturned == entry = "analyze_job_with_similar_scans" /\ pc = "done"

\* C6: every returned match has a score of at least the threshold and an id
\* other than the excluded one, there are at most max_results of them, and
\* an empty index or a response without a neighbour that clears the
\* threshold gives the empty list, not an error.
C6_FindFiltering ==
    FindReturned =>
        /\ "find_similar_scans" \notin raised
        /\ Len(similar_scans) <= request.max_results
        /\ \A i \in 1..Len(similar_scans) :
              /\ similar_scans[i].similarity_score >= request.similarity_threshold
              /\ similar_scans[i].scan_id # request.current_scan_id
        /\ (\/ \A id \in ScanIds : ~index[id].present
            \/ \A i \in 1..Len(query_response) :
                  query_response[i].score < request.similarity_threshold)
             => similar_scans = <<>>

\* the response held a neighbour below the threshold and the excluded scan
\* itself, and a match was returned
C6_Witness ==
    /\ FindReturned
    /\ similar_scans # <<>>
    /\ \E i \in 1..Len(query_response) :
          query_response[i].score < request.similarity_threshold
    /\ \E i \in 1..Len(query_response) :
          /\ query_response[i].id = request.current_scan_id
          /\ query_response[i].score >= request.similarity_threshold

\* C7: the returned list is sorted in descending order of similarity_score,
\* whatever the order of the index's response.
C7_SortedDescending ==
    FindReturned =>
        \A i, j \in 1..Len(similar_scans) :
            i < j => similar_scans[i].similarity_score
                        >= similar_scans[j].similarity_score

EnrichmentFailed == \E i \in 1..Len(similar_scans) : EnrichRaises(similar_scans[i])

\* C8 as claimed: find_similar_market_scans never raises, and returns
\* ([], 0.0) whenever embedding generation, the index query or the
\* enrichment fails.
C8_EmptyOnAnyFailure ==
    MarketReturned =>
        /\ "find_similar_market_scans" \notin raised
        /\ (find_error \in {"embedding", "query"} \/ EnrichmentFailed)
             => enriched_scans = <<>> /\ confidence = ZeroConfidence

\* C8 amended: find_similar_market_scans never raises; it returns ([], 0.0)
\* whenever embedding generation or the index query fails; a match whose
\* enrichment fails is returned as find_similar_scans built it, in its place
\* in the list.
C8_EmptyOnSearchFailure ==
    MarketReturned =>
        /\ "find_similar_market_scans" \notin raised
        /\ find_error \in {"embedding", "query"}
             => enriched_scans = <<>> /\ confidence.num = 0 /\ confidence.ulp = 0
        /\ Len(enriched_scans) = Len(similar_scans)
        /\ \A i \in 1..Len(similar_scans) :
              EnrichRaises(similar_scans[i]) => enriched_scans[i] = similar_scans[i]

\* the query failed against an index that holds records
C8_Witness ==
    /\ MarketReturned
    /\ find_error = "query"
    /\ \E id \in ScanIds : index[id].present
    /\ enriched_scans = <<>>
    /\ confidence.num = 0

AnalysisFields ==
    {"role_category", "experience_level", "years_experience_required",
     "must_have_skills", "nice_to_have_skills", "key_responsibilities",
     "remote_work_suitability", "complexity_score", "recommended_regions",
     "unique_challenges", "salary_factors"}

\* C9: when the embedding or the index query fails,
\* analyze_job_with_similar_scans does not raise and returns the baseline
\* unchanged, an empty match list and confidence 0.0; the analysis is a
\* complete, valid JobAnalysis.
C9_AnalysisDegradation ==
    (AnalysisReturned /\ find_error \in {"embedding", "query"}) =>
        /\ raised \cap {"analyze_job_with_similar_scans",
                        "find_similar_market_scans"} = {}
        /\ enhanced_analysis = job_analysis
        /\ DOMAIN enhanced_analysis = AnalysisFields
        /\ enhanced_analysis.complexity_score \in MinComplexity..MaxComplexity
        /\ enriched_scans = <<>>
        /\ confidence.num = 0 /\ confidence.ulp = 0

\* the query failed although the index held two neighbours for the request
C9_Witness ==
    /\ AnalysisReturned
    /\ find_error = "query"
    /\ Cardinality({id \in ScanIds : index[id].present /\ id # request.current_scan_id}) >= 2
    /\ job_analysis.complexity_score > DefaultComplexity

\* C10: when the embedding provider or the index query fails,
\* find_similar_scans reports an error to its caller instead of returning
\* an empty list.
C10_ErrorPropagation ==
    (FindReturned /\ find_error \in {"embedding", "query"})
        => "find_similar_scans" \in raised

\* ------------------------------------------------------------------------
\* Properties of the store path (SpecStore) and of the workflow (Spec)
\* ------------------------------------------------------------------------
StoreReturned == store_result # "none"

StoreFunctions ==
    {"upsert_market_scan", "store_market_scan_vector", "store_analysis_vector"}

\* C12: a store call never raises to its caller; it returns False whenever
\* embedding generation or the index upsert failed, and it returns True only
\* when the upsert was performed, the index then holding the vector of the
\* call under its scan_id.
C12_StoreFailureAsValue ==
    StoreReturned =>
        /\ raised \cap StoreFunctions = {}
        /\ store_error # "none" => store_result = "False"
        /\ store_result = "True" =>
              /\ store_error = "none"
              /\ index[store_call.scan_id] =
                    Vector(store_call.scan_id, store_call.company_domain,
                           store_call.client_name,
                           AnalysisDict(store_call.job_analysis),
                           clock, embedding)

\* index.upsert raised after the embedding had been generated, and the call
\* returned False
C12_Witness ==
    /\ StoreReturned
    /\ entry = "store_analysis_vector"
    /\ store_error = "upsert"
    /\ embedding \in Vectors
    /\ "index.upsert" \in raised
    /\ store_result = "False"

WorkflowReturned == entry = "process_market_scan_analysis" /\ pc = "done"

\* C13: when the vector write fails while the analysis, the salary
\* calculation and the database update succeed, the workflow ends with the
\* row of the scan at status 'completed', holding the analysis and the
\* confidence score.
C13_AnalysisSurvivesStoreFailure ==
    (/\ WorkflowReturned
     /\ store_error # "none"
     /\ raised \cap {"calculate_salary_recommendations", "update_market_scan"} = {})
        => /\ db.status = "completed"
           /\ db.job_analysis = enhanced_analysis
           /\ db.confidence_score = confidence

\* the upsert failed for an analysis that similar scans had enhanced, and
\* the row was completed
C13_Witness ==
    /\ WorkflowReturned
    /\ store_error = "upsert"
    /\ store_result = "False"
    /\ Len(enriched_scans) >= 2
    /\ db.status = "completed"
    /\ db.job_analysis = enhanced_analysis

\* C14: after any sequence of store calls, the index holds under every id
\* that was stored successfully one record, and that record carries the
\* vector and the metadata of the most recent successful store for the id.
C14_IdempotentUpsert ==
    \A id \in ScanIds :
        stored[id].n > 0 =>
            /\ index[id].present
            /\ index[id] = Vector(id, stored[id].call.company_domain,
                                  stored[id].call.client_name,
                                  AnalysisDict(stored[id].call.job_analysis),
                                  stored[id].created_at, stored[id].values)

\* the same id was stored twice, with another analysis the second time, and
\* the index holds the second call's vector
C14_Witness ==
    \E id \in ScanIds :
        /\ stored[id].n = 2
        /\ stored[id].created_at = 2
        /\ index[id].created_at = 2
        /\ index[id].role_category = "Operations Manager"
        /\ pc = "idle"

BothTextsBuilt == provider_text.upsert # <<>> /\ provider_text.find # <<>>

\* C15: for every title and description, the text that the write path hands
\* to the embedding provider is the text that the query path hands to it,
\* whitespace cleaning and truncation included.
C15_EmbeddingTextSymmetry ==
    BothTextsBuilt => provider_text.upsert = provider_text.find

\* a posting with runs of whitespace, long enough to be truncated
C15_Witness ==
    /\ BothTextsBuilt
    /\ \E i \in 1..Len(posting.job_title) :
          posting.job_title[i].ch \in Whitespace /\ posting.job_title[i].n >= 2
    /\ TextLen(UpsertEmbeddingText(posting.job_title, posting.job_description))
         > max_chars + 3
    /\ TextLen(provider_text.upsert) = max_chars + 3
    /\ provider_text.find[Len(provider_text.find)] = Run(".", 3)

\* ------------------------------------------------------------------------
\* Order of the steps of one request (Spec)
\* ------------------------------------------------------------------------
\* the steps in the order of the pipeline
StepOrder ==
    <<"idle", "generate_embedding", "index_query", "calculate_confidence",
      "enrich", "enhance", "salary", "store", "store_embedding", "upsert",
      "update_db", "mark_failed", "done">>

Stage(p) == CHOOSE i \in 1..Len(StepOrder) : StepOrder[i] = p

\* the matches that the request's query produced
MatchesOfQuery ==
    IF find_error # "none" THEN <<>>
    ELSE ProcessMatches(query_response, request.max_results,
                        request.similarity_threshold, request.current_scan_id)

\* C25: every step of a request moves it forward in the order embed, query,
\* score, enhance, store: the index is queried only after the embedding call,
\* the confidence is computed after the query and from the matches of that
\* query, the enhancement follows the scoring, the store follows the
\* enhancement, and the index is written only by the upsert of the store,
\* which comes after the query has completed.
C25_PipelineOrder ==
    [][/\ Stage(pc) < Stage(pc')
       /\ pc' = "index_query" => pc = "generate_embedding"
       /\ pc' = "calculate_confidence" => pc \in {"generate_embedding", "index_query"}
       /\ confidence' # confidence =>
             /\ pc = "calculate_confidence"
             /\ similar_scans = MatchesOfQuery
             /\ confidence' = CalculateConfidenceScore(MatchesOfQuery)
       /\ pc' = "enhance" => pc = "enrich" /\ confidence # NoConfidence
       /\ pc' = "salary" => pc = "enhance"
       /\ pc' = "store" => pc = "salary" /\ enhanced_analysis # NoAnalysis
       /\ pc' = "store_embedding" => pc = "store"
       /\ index' # index =>
             /\ pc = "upsert"
             /\ store_call.scan_id = request.current_scan_id
             /\ confidence # NoConfidence
             /\ enhanced_analysis # NoAnalysis]_vars

\* a request whose own vector is in the index after a query that returned
\* matches, a confidence above zero and an enhancement
C25_Witness ==
    /\ entry = "process_market_scan_analysis"
    /\ pc = "update_db"
    /\ store_result = "True"
    /\ index[request.current_scan_id].present
    /\ similar_scans # <<>>
    /\ ~ConfIsZero(confidence)
    /\ enhanced_analysis # NoAnalysis

\* ------------------------------------------------------------------------
\* The confidence and the matches that find_similar_market_scans returns (Spec)
\* ------------------------------------------------------------------------
\* largest similarity_score among the first TopN matches
TopScore(scans) ==
    LET top == Take(scans, TopN)
    IN  CHOOSE s \in {top[i].similarity_score : i \in 1..Len(top)} :
            \A i \in 1..Len(top) : top[i].similarity_score <= s

\* the returned matches are the scored ones with fields added: same count,
\* same ids and scores in the same order
SameMatches(returned, scored) ==
    /\ Len(returned) = Len(scored)
    /\ \A i \in 1..Len(scored) :
          /\ returned[i].scan_id = scored[i].scan_id
          /\ returned[i].similarity_score = scored[i].similarity_score

TaskPast(t, steps) == tasks[t].pc \notin steps

\* the values of request t are those of a request that runs alone against
\* the index contents that its query saw
RunsAsAlone(t) ==
    LET r == tasks[t]
        id == TaskScanId(t)
    IN  /\ (TaskPast(t, {"idle", "index_query"}) /\ r.find_error # "query") =>
              /\ \E keyless \in BOOLEAN :
                    r.query_response \in
                        Responses(r.seen, QueryTopK(AnalysisMaxResults, id),
                                  Eligible(r.seen, id, keyless))
              /\ r.similar_scans =
                    IF ProcessRaises(r.query_response, AnalysisThreshold, id)
                    THEN OnFindError
                    ELSE ProcessMatches(r.query_response, AnalysisMaxResults,
                                        AnalysisThreshold, id)
        /\ TaskPast(t, {"idle", "index_query", "calculate_confidence"}) =>
              r.confidence = CalculateConfidenceScore(r.similar_scans)
        /\ TaskPast(t, {"idle", "index_query", "calculate_confidence", "enrich"}) =>
              r.enriched_scans = EnrichSimilarScans(r.similar_scans)
        /\ TaskPast(t, {"idle", "index_query", "calculate_confidence", "enrich",
                        "enhance"}) =>
              \E order \in SkillOrders(r.enriched_scans) :
                  r.enhanced_analysis =
                      EnhanceAnalysis(r.job_analysis, r.enriched_scans, order)

\* C27: under every interleaving of the steps of two requests, a step of one
\* request leaves the matches, the confidence and the analyses of the other
\* as they were, and the matches, confidence and enhanced analysis of each
\* request are the ones that it obtains alone against the index contents
\* that its query saw.
C27_RequestIndependence ==
    [][/\ \A t \in Tasks : RunsAsAlone(t)'
       /\ \A t, u \in Tasks :
             (t # u /\ tasks'[t] # tasks[t]) => tasks'[u] = tasks[u]]_vars

\* the second request has queried an index that holds the vector of the
\* first one and is not yet scored, while the first request, with other
\* matches and a confidence above zero, has ended
C27_Witness ==
    /\ tasks["t1"].pc = "done"
    /\ tasks["t2"].pc = "calculate_confidence"
    /\ tasks["t2"].seen["s1"].present
    /\ Len(tasks["t2"].similar_scans) = 2
    /\ Len(tasks["t1"].similar_scans) = 1
    /\ ~ConfIsZero(tasks["t1"].confidence)

\* ------------------------------------------------------------------------
\* What the workflow persists (Spec)
\* ------------------------------------------------------------------------
\* C30: in the scan-creation workflow the record written to the index and the
\* row written to the database hold the enhanced analysis that
\* analyze_job_with_similar_scans returned: the stored complexity_score is
\* the enhanced one and the stored must_have_skills are the baseline's.
C30_EnhancedPersisted ==
    entry = "process_market_scan_analysis" =>
        LET id == request.current_scan_id
        IN  /\ stored[id].n > 0 =>
                  /\ stored[id].call.job_analysis = enhanced_analysis
                  /\ index[id].complexity_score =
                        PyNum(enhanced_analysis.complexity_score)
                  /\ index[id].must_have_skills =
                        JsonArray(job_analysis.must_have_skills)
            /\ db.status = "completed" =>
                  /\ db.job_analysis = enhanced_analysis
                  /\ db.job_analysis.must_have_skills = job_analysis.must_have_skills

\* a completed scan whose stored complexity is the blended one, different
\* from the baseline's, and whose enhancement added skills
C30_Witness ==
    /\ WorkflowReturned
    /\ db.status = "completed"
    /\ stored[request.current_scan_id].n > 0
    /\ enhanced_analysis.complexity_score # job_analysis.complexity_score
    /\ index[request.current_scan_id].complexity_score
          = PyNum(enhanced_analysis.complexity_score)
    /\ db.job_analysis.nice_to_have_skills # job_analysis.nice_to_have_skills
    /\ job_analysis.must_have_skills # <<>>

\* ------------------------------------------------------------------------
\* Status of the scan's row (Spec)
\* ------------------------------------------------------------------------
\* C28: the row of a scan is at status 'analyzing' while its background task
\* runs, and when the task has ended, whatever step failed, the row is at
\* 'completed' or 'failed'.
C28_StatusLifecycle ==
    entry = "process_market_scan_analysis" =>
        /\ pc # "done" => db.status = "analyzing"
        /\ pc = "done" => db.status \in {"completed", "failed"}

\* ------------------------------------------------------------------------
\* Termination under calls that do not return (SpecHang)
\* ------------------------------------------------------------------------
\* C26: a request that is waiting for an embedding, index-query or
\* index-upsert call which does not return finishes all the same.
WaitingForCall ==
    pc \in {"generate_embedding_blocked", "index_query_blocked",
            "store_embedding_blocked", "upsert_blocked"}

C26_BoundedExternalCalls == WaitingForCall ~> (pc = "done")

Ellipsis == Literal(<<".", ".", ".">>)

\* the whitespace-normalised text of the posting, before truncation
CleanedPosting ==
    Join(Literal(<<" ">>),
         Split(UpsertEmbeddingText(posting.job_title, posting.job_description)))

\* C24: the text that _clean_text_for_embedding returns has at most max_chars
\* + 3 characters; it is the first max_chars characters of the cleaned text
\* followed by the ellipsis exactly when the cleaned text is longer than
\* max_chars, and the cleaned text otherwise; the routine returns the same
\* text when it is applied again to the same input or to its own output.
C24_DeterministicTruncation ==
    provider_text.upsert # <<>> =>
        LET out == provider_text.upsert
            exceeded == TextLen(CleanedPosting) > max_chars
        IN  /\ TextLen(out) <= max_chars + 3
            /\ exceeded <=> TextLen(out) > max_chars
            /\ exceeded =>
                  /\ TextLen(out) = max_chars + 3
                  /\ out = Concat(Slice(out, max_chars), Ellipsis)
                  /\ Slice(out, max_chars) = Slice(CleanedPosting, max_chars)
            /\ ~exceeded => out = CleanedPosting
            /\ provider_text.again # <<>> => provider_text.again = out
            /\ provider_text.reclean # <<>> => provider_text.reclean = out

\* a truncated text whose last kept character is a blank, cleaned again both
\* ways
C24_Witness ==
    /\ provider_text.again # <<>>
    /\ provider_text.reclean # <<>>
    /\ TextLen(CleanedPosting) > max_chars
    /\ Len(provider_text.upsert) >= 2
    /\ provider_text.upsert[Len(provider_text.upsert) - 1] = Run(" ", 1)
    /\ provider_text.upsert[Len(provider_text.upsert)] = Run(".", 3)

\* ------------------------------------------------------------------------
\* Properties of the stored metadata (SpecStore)
\* ------------------------------------------------------------------------
MetadataFields ==
    {"scan_id", "company_domain", "client_name", "role_category",
     "experience_level", "complexity_score", "must_have_skills",
     "recommended_regions", "created_at"}

\* C23: whatever caller-supplied values of a store call are None, every
\* metadata value handed to index.upsert, and so every metadata value of a
\* record that a store call wrote, is a non-null string or number.
C23_NoNullMetadata ==
    /\ pc = "upsert" =>
          LET v == Vector(store_call.scan_id, store_call.company_domain,
                          store_call.client_name,
                          AnalysisDict(store_call.job_analysis), clock, embedding)
          IN  /\ MetadataFields \subseteq DOMAIN v
              /\ v.company_domain # PyNone
              /\ v.client_name # PyNone
              /\ v.must_have_skills # JsonNull
              /\ v.recommended_regions # JsonNull
    /\ \A id \in ScanIds :
          stored[id].n > 0 =>
              /\ index[id].company_domain # PyNone
              /\ index[id].client_name # PyNone

\* ------------------------------------------------------------------------
\* Properties of the neighbours' metadata (Spec)
\* ------------------------------------------------------------------------
\* a neighbour's list field read with per-field tolerance: empty when the
\* stored text does not parse
TolerantLoads(t) == IF JsonLoadsRaises(t) THEN PyList(<<>>) ELSE JsonLoads(t)

TolerantScan(match) ==
    [Match(match.id, match.score, match.metadata.complexity_score,
           TolerantLoads(match.metadata.must_have_skills))
       EXCEPT !.role_category = match.metadata.role_category,
              !.experience_level = match.metadata.experience_level,
              !.recommended_regions =
                  TolerantLoads(match.metadata.recommended_regions)]

\* C22: when the index answered the query, the search returns every
\* neighbour that clears the threshold (up to max_results), a neighbour whose
\* must_have_skills or recommended_regions does not parse among them with
\* that field empty.
C22_PerFieldTolerance ==
    (pc = "calculate_confidence" /\ find_error \notin {"embedding", "query"}) =>
        LET kept == Kept(query_response, request.similarity_threshold,
                         request.current_scan_id)
        IN  similar_scans =
                Truncate([i \in 1..Len(kept) |-> TolerantScan(kept[i])],
                         request.max_results)

====
